---- MODULE Spec2Model ----
(***************************************************************************)
(* Transform pipeline of the TCGA repository: src/transform_to_mongo.py    *)
(* (matrix reshaping, identifier derivation, document building, batched    *)
(* upsert) and src/join_clinical.py (clinical join), over a document       *)
(* store that behaves like one MongoDB collection.                         *)
(*                                                                         *)
(* Strings are sequences of tokens.  A token stands for a run of           *)
(* characters without meaning to the code ("BR", "0001") or for one        *)
(* character the code looks at ("-", ":"); "TCGA" is the literal the code  *)
(* compares with.  No token is a prefix of another one, so two token       *)
(* sequences are equal exactly when the strings they spell are equal.      *)
(***************************************************************************)
EXTENDS Integers, Sequences, FiniteSets, TLC

VARIABLES
    store,          \* the collection: a set of documents
    pc,             \* "idle" | "file" | "batch" | "done" | "crashed"
    tsv_files,      \* transform_all_files_from_minio: the listed objects
    batch_size,     \* insert_documents_to_mongo: batch_size
    fileIdx,        \* position of the file loop (1-based)
    documents,      \* insert_documents_to_mongo: documents
    i,              \* insert_documents_to_mongo: loop index (0-based)
    total_inserted, \* insert_documents_to_mongo: running total
    results,        \* transform_all_files_from_minio: count per file
    attempted,      \* history: the batches issued by the current call,
                    \* with what the store counted as inserted or modified
    fileFault,      \* history: per processed file, did a batch fault
    track,          \* history: are base and rerun recorded
    base,           \* history: the store when the current run started
    rerun,          \* history: "no", or how the run repeated now crashed:
                    \* "mid" inside a batch loop, else "edge"
    last,           \* history: the clinical join, if nothing ran since,
                    \* and whether it repeated the join before it
    join,           \* update_patients_with_clinical run batch by batch
    file_list,      \* transform_all_files_from_minio: the bucket listing
    processed,      \* history: per file taken up, the object and what
                    \* became of it
    sid,            \* Identifier Deriver: the input string
    derived,        \* Identifier Deriver: the result, or NoResult
    barcode_id,     \* Clinical Joiner: extract_patient_id of the input
                    \* string, or NoResult
    frame,          \* Matrix Reshaper: the input (stream, cohort, panel)
    reshaped,       \* Matrix Reshaper: the result, or NoResult
    clinical_df,    \* load_clinical_data: the clinical table
    loaded          \* load_clinical_data: the result, or NoResult

vars == <<store, pc, tsv_files, batch_size, fileIdx, documents, i,
          total_inserted, results, attempted, fileFault, track, base, rerun,
          last, join, file_list, processed, sid, derived, barcode_id, frame,
          reshaped, clinical_df, loaded>>

loaderVars == <<store, pc, tsv_files, batch_size, fileIdx, documents, i,
                total_inserted, results, attempted, fileFault, track, base,
                rerun, last, join, file_list, processed>>

pureVars == <<sid, derived, barcode_id, frame, reshaped, clinical_df, loaded>>

(***************************************************************************)
(* Bounds                                                                  *)
(***************************************************************************)
MaxIdLen == 5        \* longest identifier of the exhaustive derive inputs
MaxBatchSize == 2    \* batch sizes 1..MaxBatchSize
MaxFiles == 2        \* longest object listing of one transform run
MaxRows == 3         \* most gene rows of the exhaustive matrices
MaxCols == 2         \* most sample columns of the exhaustive matrices
MaxClinCols == 3     \* most columns of the exhaustive clinical tables
MaxClinRows == 2     \* most rows of the exhaustive clinical tables

(***************************************************************************)
(* Strings                                                                 *)
(***************************************************************************)
DASH == "-"
TCGA == <<"TCGA">>
UNKNOWN == <<"UNKNOWN">>
COLON == <<":">>

Min(a, b) == IF a < b THEN a ELSE b

\* positions of the separator in s
DashPos(s) == {k \in 1..Len(s) : s[k] = DASH}

FirstDash(s) == CHOOSE k \in DashPos(s) : \A m \in DashPos(s) : k <= m

\* str.split('-'): the maximal dash-free pieces, empty ones included
RECURSIVE Split(_)
Split(s) ==
    IF DashPos(s) = {} THEN <<s>>
    ELSE <<SubSeq(s, 1, FirstDash(s) - 1)>>
             \o Split(SubSeq(s, FirstDash(s) + 1, Len(s)))

\* needle in haystack (Series.str.contains on a literal pattern)
Contains(hay, needle) ==
    \E k \in 0..(Len(hay) - Len(needle)) :
        SubSeq(hay, k + 1, k + Len(needle)) = needle

(***************************************************************************)
(* Identifier Deriver                                                      *)
(***************************************************************************)
\* join_clinical.extract_patient_id: '-'.join(parts[:3])
extract_patient_id(barcode) ==
    LET parts == Split(barcode)
    IN  IF Len(parts) >= 3
        THEN parts[1] \o <<DASH>> \o parts[2] \o <<DASH>> \o parts[3]
        ELSE barcode

\* the same with the prefix test dropped, as join_clinical.extract_patient_id
derive_no_prefix_test(sample_id) ==
    LET parts == Split(sample_id)
    IN  IF Len(parts) >= 3
        THEN <<parts[1] \o <<DASH>> \o parts[2] \o <<DASH>> \o parts[3],
               parts[2]>>
        ELSE <<sample_id, UNKNOWN>>

extract_patient_id_and_cohort(sample_id) ==
    LET parts == Split(sample_id)
    IN  IF Len(parts) >= 3 /\ parts[1] = TCGA
        THEN <<parts[1] \o <<DASH>> \o parts[2] \o <<DASH>> \o parts[3],
               parts[2]>>
        ELSE <<sample_id, UNKNOWN>>

\* a key that leaves the patient id out
DocumentIdCohortOnly(cohort, patient_id) == cohort \o COLON

\* f"{cohort}:{patient_id}"
DocumentId(cohort, patient_id) == cohort \o COLON \o patient_id

(***************************************************************************)
(* Matrix cells and documents                                              *)
(***************************************************************************)
\* a cell as pandas hands it to create_mongo_document: its runtime type
\* and, for a number, its value
NaN == [t |-> "nan", v |-> 0]
NpFloat(n) == [t |-> "np.float64", v |-> n]
NpInt(n) == [t |-> "np.int64", v |-> n]
Float(n) == [t |-> "float", v |-> n]
Str(n) == [t |-> "str", v |-> n]
None == [t |-> "None", v |-> 0]

\* the clinical mapping of a new document: {}
EmptyMap == [f \in {} |-> 0]

\* CFG['cgas_sting_genes']
cgas_sting_genes ==
    {"C6orf150", "CCL5", "CXCL10", "TMEM173", "CXCL9", "CXCL11", "NFKB1",
     "IKBKE", "IRF3", "TREX1", "ATM", "IL6", "IL8", "CXCL8"}

PAN_CANCER == <<"PAN_CANCER">>

\* a test for NaN that does not know None (math.isnan in place of pd.isna)
SanitizeValueNanOnly(value) ==
    IF value.t = "nan" THEN Float(0)
    ELSE IF value.t \in {"np.int64", "np.float64"} THEN Float(value.v)
    ELSE value

\* the loop body of create_mongo_document: one gene value
SanitizeValue(value) ==
    IF value.t \in {"nan", "None"} THEN Float(0)
    ELSE IF value.t \in {"np.int64", "np.float64"} THEN Float(value.v)
    ELSE value

\* the same with the key built the other way round
create_mongo_document_swapped(row, gene_columns) ==
    LET sample_id == row["sample"]
        pc2 == extract_patient_id_and_cohort(sample_id)
    IN  [_id |-> DocumentId(pc2[1], pc2[2]),
         patient_id |-> pc2[1],
         sample_id |-> sample_id,
         cancer_cohort |-> pc2[2],
         genes |-> [gene \in gene_columns |-> SanitizeValue(row[gene])],
         clinical |-> EmptyMap]

\* the same leaving out the genes whose cell is missing
create_mongo_document_dropping(row, gene_columns) ==
    LET sample_id == row["sample"]
        pc2 == extract_patient_id_and_cohort(sample_id)
    IN  [_id |-> DocumentId(pc2[2], pc2[1]),
         patient_id |-> pc2[1],
         sample_id |-> sample_id,
         cancer_cohort |-> pc2[2],
         genes |-> [gene \in {g \in gene_columns :
                                 row[g].t \notin {"nan", "None"}} |->
                       SanitizeValue(row[gene])],
         clinical |-> EmptyMap]

create_mongo_document(row, gene_columns) ==
    LET sample_id == row["sample"]
        pc2 == extract_patient_id_and_cohort(sample_id)
        patient_id == pc2[1]
        cohort == pc2[2]
    IN  [_id |-> DocumentId(cohort, patient_id),
         patient_id |-> patient_id,
         sample_id |-> sample_id,
         cancer_cohort |-> cohort,
         genes |-> [gene \in gene_columns |-> SanitizeValue(row[gene])],
         clinical |-> EmptyMap]

(***************************************************************************)
(* Matrix Reshaper: df is [index, columns, values], values[r][c] the cell  *)
(* of row label index[r] and sample column columns[c]; read_csv keeps the  *)
(* column labels distinct and keeps a row label that occurs twice.  A text *)
(* stream is the table it spells, or a text that read_csv does not parse   *)
(***************************************************************************)
EmptyFrame == [index |-> <<>>, columns |-> <<>>, values |-> <<>>]

Text(df) == [table |-> TRUE, df |-> df]
Garbled == [table |-> FALSE, df |-> EmptyFrame]

RowsOf(df, gene) == {r \in 1..Len(df.index) : df.index[r] = gene}

RowOf(df, gene) == CHOOSE r \in 1..Len(df.index) : df.index[r] = gene

\* the substitution that is made only if the matrix has no row IL8
GenesToKeepCanonicalFirst(df, target_genes) ==
    LET available_genes == {df.index[r] : r \in 1..Len(df.index)}
        genes_to_keep == (available_genes \cap target_genes) \ {"CXCL8"}
    IN  IF "IL8" \notin available_genes /\ "CXCL8" \in available_genes
        THEN genes_to_keep \cup {"CXCL8"}
        ELSE genes_to_keep

\* every row of the matrix, as process_all_genes keeps them
GenesToKeepAll(df, target_genes) ==
    {df.index[r] : r \in 1..Len(df.index)}

\* target_genes is set(CFG['cgas_sting_genes'])
GenesToKeep(df, target_genes) ==
    LET available_genes == {df.index[r] : r \in 1..Len(df.index)}
        genes_to_keep == available_genes \cap target_genes
    IN  IF "IL8" \notin genes_to_keep /\ "CXCL8" \in available_genes
        THEN genes_to_keep \cup {"CXCL8"}
        ELSE genes_to_keep

\* a transpose that hands every sample the values of its right neighbour
TransposedShifted(df, target_genes) ==
    [c \in 1..Len(df.columns) |->
        [g \in GenesToKeep(df, target_genes) \cup {"sample"} |->
            IF g = "sample" THEN df.columns[c]
            ELSE df.values[RowOf(df, g)][(c % Len(df.columns)) + 1]]]

\* df.loc[genes_to_keep].transpose().reset_index(): one row per sample
Transposed(df, target_genes) ==
    [c \in 1..Len(df.columns) |->
        [g \in GenesToKeep(df, target_genes) \cup {"sample"} |->
            IF g = "sample" THEN df.columns[c]
            ELSE df.values[RowOf(df, g)][c]]]

\* a retained row label that occurs twice: row[gene] is then a Series and
\* the test of pd.isna(value) raises, which the handler turns into []
Ambiguous(df, genes_to_keep) ==
    \E g \in genes_to_keep : Cardinality(RowsOf(df, g)) > 1

\* the same without the cohort filter
process_transposed_tsv_data_unfiltered(file_stream, cohort, target_genes) ==
    IF ~file_stream.table THEN <<>>
    ELSE
    LET df == file_stream.df
        genes_to_keep == GenesToKeep(df, target_genes)
        df_transposed == Transposed(df, target_genes)
    IN  IF genes_to_keep = {} \/ Ambiguous(df, genes_to_keep) THEN <<>>
        ELSE [k \in 1..Len(df_transposed) |->
                 create_mongo_document(df_transposed[k], genes_to_keep)]

process_transposed_tsv_data(file_stream, cohort, target_genes) ==
    IF ~file_stream.table THEN <<>>
    ELSE
    LET df == file_stream.df
        genes_to_keep == GenesToKeep(df, target_genes)
        df_transposed == Transposed(df, target_genes)
        InCohort(row) ==
            Contains(row["sample"], <<"TCGA", DASH>> \o cohort \o <<DASH>>)
        df_filtered ==
            IF cohort # <<>> /\ cohort # PAN_CANCER
            THEN SelectSeq(df_transposed, InCohort)
            ELSE df_transposed
    IN  IF genes_to_keep = {} \/ Ambiguous(df, genes_to_keep) THEN <<>>
        ELSE [k \in 1..Len(df_filtered) |->
                 create_mongo_document(df_filtered[k], genes_to_keep)]

(***************************************************************************)
(* Payloads.  The bytes of an object: whether they start with 1f 8b, and   *)
(* what they are: "deflate" a gzip member that holds the UTF-8 bytes of    *)
(* text, "utf8" the UTF-8 bytes of text, "junk" neither.  UTF-8 text does  *)
(* not start with 1f 8b (8b is no first byte of a character).              *)
(***************************************************************************)
GzipOf(text) == [magic |-> TRUE, body |-> "deflate", text |-> text]
Utf8Of(text) == [magic |-> FALSE, body |-> "utf8", text |-> text]
BadGzip == [magic |-> TRUE, body |-> "junk", text |-> Garbled]

\* what a call gives: a value, or an exception
Raised == [ok |-> FALSE, v |-> Garbled]
Returned(value) == [ok |-> TRUE, v |-> value]

\* gzip.decompress(data): the bytes inside, BadGzipFile otherwise
gzip_decompress(data) ==
    IF data.magic /\ data.body = "deflate"
    THEN Returned(Utf8Of(data.text)) ELSE Raised

\* bytes.decode('utf-8')
decode_utf8(data) ==
    IF ~data.magic /\ data.body = "utf8" THEN Returned(data.text) ELSE Raised

\* gzip.decompress(data).decode('utf-8')
decompress_decode(data) ==
    IF gzip_decompress(data).ok THEN decode_utf8(gzip_decompress(data).v)
    ELSE Raised

GZ == ".gz"
TSV == ".tsv"

\* str.endswith on a name whose last token is its extension
endswith(name, suffix) == Len(name) > 0 /\ name[Len(name)] = suffix

\* process_tsv_data: the stream is chosen by the first two bytes
process_tsv_data(tsv_content, cohort) ==
    LET content == IF tsv_content.magic THEN decompress_decode(tsv_content)
                   ELSE decode_utf8(tsv_content)
    IN  IF ~content.ok THEN <<>>
        ELSE process_transposed_tsv_data(content.v, cohort, cgas_sting_genes)

\* process_file_from_minio: the stream is chosen by the object name
stream_of(object_name, data) ==
    IF endswith(object_name, GZ) THEN decompress_decode(data)
    ELSE decode_utf8(data)

(***************************************************************************)
(* Inputs: the objects of the bucket and the clinical maps                 *)
(***************************************************************************)
S_BR1_01 == <<"TCGA", "-", "BR", "-", "0001", "-", "01">>
S_BR1_11 == <<"TCGA", "-", "BR", "-", "0001", "-", "11">>
S_BR2_01 == <<"TCGA", "-", "BR", "-", "0002", "-", "01">>
S_XYZ == <<"XYZ">>

P_BR1 == <<"TCGA", "-", "BR", "-", "0001">>
P_BR2 == <<"TCGA", "-", "BR", "-", "0002">>

\* object 1: two patients, a row outside the panel
\* object 2: two samples of one patient and an id outside the TCGA format,
\*           other values and other gene rows for sample S_BR1_01
\* object 3: no row of the panel
Object(f) ==
    CASE f = 1 ->
           [index |-> <<"TMEM173", "FOO", "IL8">>,
            columns |-> <<S_BR1_01, S_BR2_01>>,
            values |-> << <<NpFloat(1), NpFloat(2)>>,
                          <<NpFloat(7), NpFloat(8)>>,
                          <<NpFloat(3), NaN>> >>]
      [] f = 2 ->
           [index |-> <<"TMEM173", "CXCL8">>,
            columns |-> <<S_BR1_11, S_BR1_01, S_XYZ>>,
            values |-> << <<NpFloat(4), NpFloat(5), NpInt(6)>>,
                          <<NaN, NpFloat(2), NpFloat(1)>> >>]
      [] OTHER ->
           [index |-> <<"FOO">>,
            columns |-> <<S_BR2_01>>,
            values |-> << <<NpFloat(9)>> >>]

\* objects whose name says what the payload is
Objects == 1..3

\* and objects 4: gzip payload under a .tsv name, 5: plain payload under a
\* .gz name, 6: a text that is no table, 7: a malformed gzip member,
\* 8: a name the run does not take up
AllObjects == 1..8

ObjectName(f) ==
    <<"tcga/", ToString(f)>> \o
        (CASE f \in {1, 3, 4, 6} -> <<TSV>>
           [] f \in {2, 5, 7} -> <<GZ>>
           [] OTHER -> <<".json">>)

Payload(f) ==
    CASE f \in {1, 3} -> Utf8Of(Text(Object(f)))
      [] f = 2 -> GzipOf(Text(Object(2)))
      [] f = 4 -> GzipOf(Text(Object(1)))
      [] f = 5 -> Utf8Of(Text(Object(2)))
      [] f = 6 -> Utf8Of(Garbled)
      [] f = 7 -> BadGzip
      [] OTHER -> Utf8Of(Text(Object(1)))

\* list_objects: distinct object names, at most MaxFiles of them
FileLists ==
    {fl \in UNION {[1..n -> Objects] : n \in 0..MaxFiles} :
        \A a, b \in 1..Len(fl) : a # b => fl[a] # fl[b]}

FetchLists ==
    {fl \in UNION {[1..n -> AllObjects] : n \in 0..MaxFiles} :
        \A a, b \in 1..Len(fl) : a # b => fl[a] # fl[b]}

\* the filter of the listing: f.endswith('.tsv') or f.endswith('.gz')
IsTsvOrGz(f) == endswith(ObjectName(f), TSV) \/ endswith(ObjectName(f), GZ)

\* process_file_from_minio: the text stream of one object
Stream(f) == stream_of(ObjectName(f), Payload(f))

\* process_file_from_minio: the documents of one object
Docs(f) ==
    IF ~Stream(f).ok THEN <<>>
    ELSE process_transposed_tsv_data(Stream(f).v, PAN_CANCER,
                                     cgas_sting_genes)

\* what becomes of an object that was fetched
Outcome(f) ==
    IF ~Stream(f).ok THEN "undecodable"
    ELSE IF Docs(f) = <<>> THEN "norecords"
    ELSE "loaded"

P_LU9 == <<"TCGA", "-", "LU", "-", "0009">>

\* two patients with documents and one without
ClinicalPatients == {P_BR1, P_BR2, P_LU9}
ClinicalRecords == {[OS_time |-> 450], [OS |-> 1, OS_time |-> 30]}

\* clinical_data: patient id -> clinical record
ClinicalMaps ==
    UNION {[ps -> ClinicalRecords] : ps \in SUBSET ClinicalPatients}

(***************************************************************************)
(* Document store                                                          *)
(***************************************************************************)
\* a $set that merges an embedded mapping into the stored one
SetFieldsMerge(old, upd) ==
    [f \in DOMAIN old \cup DOMAIN upd |->
        IF f \notin DOMAIN upd THEN old[f]
        ELSE IF f = "genes" /\ f \in DOMAIN old
             THEN [g \in DOMAIN old[f] \cup DOMAIN upd[f] |->
                      IF g \in DOMAIN upd[f] THEN upd[f][g] ELSE old[f][g]]
             ELSE upd[f]]

\* {'$set': upd} applied to one document
SetFields(old, upd) ==
    [f \in DOMAIN old \cup DOMAIN upd |->
        IF f \in DOMAIN upd THEN upd[f] ELSE old[f]]

\* an upsert that spares the clinical field of a matching document
UpdateOneKeepClinical(st, doc) ==
    IF \E e \in st : e._id = doc._id
    THEN LET new == {IF e._id = doc._id
                     THEN SetFields(e, [f \in DOMAIN doc \ {"clinical"} |->
                                           doc[f]])
                     ELSE e : e \in st}
         IN  [st |-> new, n |-> IF new = st THEN 0 ELSE 1]
    ELSE [st |-> st \cup {SetFields([_id |-> doc._id], doc)}, n |-> 1]

\* an upsert that writes on insert only ($setOnInsert)
UpdateOneInsertOnly(st, doc) ==
    IF \E e \in st : e._id = doc._id
    THEN [st |-> st, n |-> 0]
    ELSE [st |-> st \cup {SetFields([_id |-> doc._id], doc)}, n |-> 1]

\* UpdateOne({'_id': doc['_id']}, {'$set': doc}, upsert=True); n is what
\* the operation adds to upserted_count + modified_count
UpdateOneUpsert(st, doc) ==
    IF \E e \in st : e._id = doc._id
    THEN LET new == {IF e._id = doc._id THEN SetFields(e, doc) ELSE e :
                        e \in st}
         IN  [st |-> new, n |-> IF new = st THEN 0 ELSE 1]
    ELSE [st |-> st \cup {SetFields([_id |-> doc._id], doc)}, n |-> 1]

\* the operations ks of a batch applied in every possible order
RECURSIVE Outcomes(_, _, _)
Outcomes(st, batch, ks) ==
    IF ks = {} THEN {[st |-> st, n |-> 0]}
    ELSE UNION {
           {[st |-> UpdateOneUpsert(o.st, batch[k]).st,
             n |-> o.n + UpdateOneUpsert(o.st, batch[k]).n] :
                o \in Outcomes(st, batch, ks \ {k})} : k \in ks}

\* collection.bulk_write(upsert_operations, ordered=False), no error
bulk_write(st, batch) == Outcomes(st, batch, 1..Len(batch))

\* a bulk write that raises and takes the documents it names out of the store
bulk_write_fault_deleting(st, batch) ==
    {[st |-> {e \in st : \A k \in ks : batch[k]._id # e._id}, n |-> 0] :
        ks \in SUBSET (1..Len(batch))}

\* the same raising PyMongoError: any part of the batch may be applied
bulk_write_fault(st, batch) ==
    UNION {Outcomes(st, batch, ks) : ks \in SUBSET (1..Len(batch))}

\* a slice without its upper end: documents[i:]
BatchRest(docs, from, size) == SubSeq(docs, from + 1, Len(docs))

\* documents[i:i + batch_size]
Batch(docs, from, size) == SubSeq(docs, from + 1, Min(from + size, Len(docs)))

\* update_patients_with_clinical: the documents that get an UpdateOne
\* (batch_operations; fewer than its batch size of 1000, so one bulk write)
ClinicalOps(st, clinical_data) ==
    IF DOMAIN clinical_data = {} THEN {}
    ELSE {e \in st :
             e.patient_id # <<>> /\ e.patient_id \in DOMAIN clinical_data}

\* an update that adds the record to the stored one, field by field
ApplyClinicalAdditive(st, clinical_data, ops) ==
    {IF e \in ops
     THEN SetFields(e,
              [clinical |->
                  [f \in DOMAIN e.clinical
                           \cup DOMAIN clinical_data[e.patient_id] |->
                      IF f \notin DOMAIN e.clinical
                      THEN clinical_data[e.patient_id][f]
                      ELSE IF f \notin DOMAIN clinical_data[e.patient_id]
                           THEN e.clinical[f]
                           ELSE e.clinical[f]
                                    + clinical_data[e.patient_id][f]]])
     ELSE e : e \in st}

\* an update that fills in the clinical field only where it is empty
ApplyClinicalIfEmpty(st, clinical_data, ops) ==
    {IF e \in ops /\ e.clinical = EmptyMap
     THEN SetFields(e, [clinical |-> clinical_data[e.patient_id]])
     ELSE e : e \in st}

\* UpdateOne({"_id": doc["_id"]}, {"$set": {"clinical": ...}}) for ops
ApplyClinical(st, clinical_data, ops) ==
    {IF e \in ops
     THEN SetFields(e, [clinical |-> clinical_data[e.patient_id]])
     ELSE e : e \in st}

\* an update that names the wrong field
update_patients_wrong_field(st, clinical_data) ==
    {IF e \in ClinicalOps(st, clinical_data)
     THEN SetFields(e, [genes |-> clinical_data[e.patient_id]])
     ELSE e : e \in st}

\* update_patients_with_clinical, the bulk write returns
update_patients_with_clinical(st, clinical_data) ==
    ApplyClinical(st, clinical_data, ClinicalOps(st, clinical_data))

\* result.modified_count of that bulk write: the documents it changed
modified_count(st, clinical_data) ==
    Cardinality({e \in ClinicalOps(st, clinical_data) :
                    e.clinical # clinical_data[e.patient_id]})

(***************************************************************************)
(* Clinical Joiner, load_clinical_data.  clinical_df is [columns, rows]:   *)
(* columns the header of the table (read_csv keeps the names distinct),    *)
(* rows[n][c] the cell of row n under the column named c: NaN for a cell   *)
(* that read_csv takes as missing, else a number or a string               *)
(***************************************************************************)
\* the columns tried for the patient id, in this order
IdColumns ==
    <<"bcr_patient_barcode", "sample", "submitter_id", "Patient_ID",
      "patient_id", "barcode">>

\* the clinical fields and the columns tried for each, in this order
field_mapping ==
    [DSS |-> <<"DSS", "disease_specific_survival", "dss">>,
     DSS_time |-> <<"DSS.time", "disease_specific_survival_time",
                    "dss_time">>,
     OS |-> <<"OS", "overall_survival", "os">>,
     OS_time |-> <<"OS.time", "overall_survival_time", "os_time">>,
     clinical_stage |-> <<"ajcc_pathologic_tumor_stage", "clinical_stage",
                          "stage", "pathologic_stage",
                          "clinical_stage_grouping", "ajcc_pathologic_stage">>,
     age_at_diagnosis |-> <<"age_at_initial_pathologic_diagnosis",
                            "age_at_diagnosis", "age">>,
     gender |-> <<"gender", "sex">>,
     race |-> <<"race", "ethnicity">>,
     vital_status |-> <<"vital_status", "status">>,
     tumor_status |-> <<"tumor_status">>,
     histological_type |-> <<"histological_type", "histology">>,
     histological_grade |-> <<"histological_grade", "grade">>]

\* str(value)
StrOf(value) ==
    IF value.t = "nan" THEN <<"nan">>
    ELSE IF value.t = "str" THEN value.v
    ELSE <<ToString(value.v)>>

\* str.lower(), on the words that occur in the tables
LowerWord(w) ==
    CASE w = "Na" -> "na"
      [] w = "Null" -> "null"
      [] w = "Nan" -> "nan"
      [] OTHER -> w

Lower(str) == [k \in 1..Len(str) |-> LowerWord(str[k])]

\* ['nan', 'na', '', 'null']
NullTokens == {<<"nan">>, <<"na">>, <<>>, <<"null">>}

\* the position in names of the first name that is a column, 0 if none is
FirstExisting(names, columns) ==
    LET ks == {k \in 1..Len(names) :
                  \E c \in 1..Len(columns) : columns[c] = names[k]}
    IN  IF ks = {} THEN 0 ELSE CHOOSE k \in ks : \A j \in ks : k <= j

\* not patient_id or patient_id == 'nan' (<<>> stands for None and '')
Unusable(patient_id) == patient_id = <<>> \/ patient_id = <<"nan">>

\* the patient id of a row with the first column tried only when no id
\* column exists
row_patient_id_named_only(columns, row) ==
    LET k == FirstExisting(IdColumns, columns)
        patient_id ==
            IF k = 0 THEN extract_patient_id(StrOf(row[columns[1]]))
            ELSE extract_patient_id(StrOf(row[IdColumns[k]]))
    IN  IF Unusable(patient_id) THEN [patient_id |-> <<>>, from |-> "skip"]
        ELSE [patient_id |-> patient_id,
              from |-> IF k = 0 THEN "first" ELSE "named"]

\* the patient id of a row and where it is from: "named" an id column,
\* "first" row.iloc[0], "skip" the row is skipped
row_patient_id(columns, row) ==
    LET k == FirstExisting(IdColumns, columns)
        named == IF k = 0 THEN <<>>
                 ELSE extract_patient_id(StrOf(row[IdColumns[k]]))
        first == extract_patient_id(StrOf(row[columns[1]]))
    IN  IF ~Unusable(named)
        THEN [patient_id |-> named, from |-> "named"]
        ELSE IF ~Unusable(first)
             THEN [patient_id |-> first, from |-> "first"]
             ELSE [patient_id |-> <<>>, from |-> "skip"]

\* the value of one clinical field of a row, if it gets one
resolve_field(columns, row, possible_sources) ==
    LET k == FirstExisting(possible_sources, columns)
    IN  IF k = 0 THEN [ok |-> FALSE, v |-> NaN]
        ELSE LET value == row[possible_sources[k]]
             IN  IF value.t # "nan"
                    /\ Lower(StrOf(value)) \notin NullTokens
                 THEN [ok |-> TRUE, v |-> value]
                 ELSE [ok |-> FALSE, v |-> NaN]

\* clinical_data of a row
row_clinical_data(columns, row) ==
    LET got == {f \in DOMAIN field_mapping :
                   resolve_field(columns, row, field_mapping[f]).ok}
    IN  [f \in got |-> resolve_field(columns, row, field_mapping[f]).v]

\* an assignment that keeps the fields the new record does not have
PutMerge(dict, patient_id, clinical_data) ==
    [q \in DOMAIN dict \cup {patient_id} |->
        IF q # patient_id THEN dict[q]
        ELSE IF q \notin DOMAIN dict THEN clinical_data
        ELSE [f \in DOMAIN dict[q] \cup DOMAIN clinical_data |->
                 IF f \in DOMAIN clinical_data THEN clinical_data[f]
                 ELSE dict[q][f]]]

\* clinical_dict[patient_id] = clinical_data
Put(dict, patient_id, clinical_data) ==
    [q \in DOMAIN dict \cup {patient_id} |->
        IF q = patient_id THEN clinical_data ELSE dict[q]]

\* clinical_dict after the first n rows
RECURSIVE clinical_dict_after(_, _)
clinical_dict_after(df, n) ==
    IF n = 0 THEN EmptyMap
    ELSE LET before == clinical_dict_after(df, n - 1)
             id == row_patient_id(df.columns, df.rows[n])
             clinical_data == row_clinical_data(df.columns, df.rows[n])
         IN  IF id.from = "skip" \/ DOMAIN clinical_data = {} THEN before
             ELSE Put(before, id.patient_id, clinical_data)

\* load_clinical_data on a table that was read
load_clinical_data(df) == clinical_dict_after(df, Len(df.rows))

(***************************************************************************)
(* State machine of the loader and the joiner                              *)
(***************************************************************************)
NoWrite == [op |-> "none", clinical_data |-> EmptyMap, again |-> FALSE,
            updated_count |-> 0]
NoResult == <<>>
NoFrame == [file_stream |-> Garbled, cohort |-> <<>>, target_genes |-> {}]
NoTable == [columns |-> <<>>, rows |-> <<>>]
NoJoin == [clinical_data |-> EmptyMap, ops |-> <<>>, batch_size |-> 1,
           i |-> 0, updated_count |-> 0, issued |-> <<>>, returned |-> -1]

Init ==
    /\ store = {}
    /\ pc = "idle"
    /\ tsv_files = <<>>
    /\ batch_size = 1
    /\ fileIdx = 1
    /\ documents = <<>>
    /\ i = 0
    /\ total_inserted = 0
    /\ results = <<>>
    /\ attempted = <<>>
    /\ fileFault = <<>>
    /\ track = FALSE
    /\ base = {}
    /\ rerun = "no"
    /\ last = NoWrite
    /\ file_list = <<>>
    /\ processed = <<>>
    /\ sid = <<>>
    /\ derived = NoResult
    /\ frame = NoFrame
    /\ reshaped = NoResult
    /\ barcode_id = NoResult
    /\ clinical_df = NoTable
    /\ loaded = NoResult
    /\ join = NoJoin

\* transform_all_files_from_minio is called with a listing of the bucket
StartTransform(files, size) ==
    /\ pc \in {"idle", "done", "crashed"}
    /\ pc' = "file"
    /\ file_list' = files
    /\ tsv_files' = SelectSeq(files, IsTsvOrGz)
    /\ processed' = <<>>
    /\ batch_size' = size
    /\ fileIdx' = 1
    /\ documents' = <<>>
    /\ i' = 0
    /\ total_inserted' = 0
    /\ results' = <<>>
    /\ attempted' = <<>>
    /\ fileFault' = <<>>
    /\ base' = IF track THEN store ELSE {}
    /\ rerun' = "no"
    /\ last' = NoWrite
    /\ UNCHANGED <<store, track, join, pureVars>>

\* the run that crashed is started again on the same listing
Rerun ==
    /\ pc = "crashed"
    /\ pc' = "file"
    /\ fileIdx' = 1
    /\ documents' = <<>>
    /\ i' = 0
    /\ total_inserted' = 0
    /\ results' = <<>>
    /\ attempted' = <<>>
    /\ fileFault' = <<>>
    /\ rerun' = IF rerun = "mid"
                    \/ (attempted # <<>> /\ i < Len(documents))
                THEN "mid" ELSE "edge"
    /\ last' = NoWrite
    /\ processed' = <<>>
    /\ UNCHANGED <<store, tsv_files, batch_size, track, base, file_list,
                   join, pureVars>>

\* a file loop that a file without documents ends
ProcessFileAbort ==
    /\ pc = "file"
    /\ fileIdx <= Len(tsv_files)
    /\ LET docs == Docs(tsv_files[fileIdx])
       IN  IF docs = <<>>
           THEN /\ fileIdx' = Len(tsv_files) + 1
                /\ UNCHANGED <<pc, documents, results, fileFault>>
           ELSE /\ pc' = "batch"
                /\ documents' = docs
                /\ UNCHANGED <<results, fileFault, fileIdx>>
    /\ processed' = Append(processed, [file |-> tsv_files[fileIdx],
                                       how |-> Outcome(tsv_files[fileIdx])])
    /\ i' = 0
    /\ total_inserted' = 0
    /\ attempted' = <<>>
    /\ UNCHANGED <<store, tsv_files, batch_size, track, base, rerun, last,
                   file_list, join, pureVars>>

\* process_file_from_minio up to the first batch of insert_documents_to_mongo
ProcessFile ==
    /\ pc = "file"
    /\ fileIdx <= Len(tsv_files)
    /\ LET docs == Docs(tsv_files[fileIdx])
       IN  IF docs = <<>>
           THEN /\ results' = Append(results, 0)
                /\ fileFault' = Append(fileFault, FALSE)
                /\ fileIdx' = fileIdx + 1
                /\ UNCHANGED <<pc, documents>>
           ELSE /\ pc' = "batch"
                /\ documents' = docs
                /\ UNCHANGED <<results, fileFault, fileIdx>>
    /\ processed' = Append(processed, [file |-> tsv_files[fileIdx],
                                       how |-> Outcome(tsv_files[fileIdx])])
    /\ i' = 0
    /\ total_inserted' = 0
    /\ attempted' = <<>>
    /\ UNCHANGED <<store, tsv_files, batch_size, track, base, rerun, last,
                   file_list, join, pureVars>>

\* process_file_from_minio: get_object_stream gives None, or raises
FetchFails ==
    /\ pc = "file"
    /\ fileIdx <= Len(tsv_files)
    /\ results' = Append(results, 0)
    /\ fileFault' = Append(fileFault, FALSE)
    /\ fileIdx' = fileIdx + 1
    /\ processed' = Append(processed, [file |-> tsv_files[fileIdx],
                                       how |-> "nofetch"])
    /\ i' = 0
    /\ total_inserted' = 0
    /\ attempted' = <<>>
    /\ UNCHANGED <<store, pc, documents, tsv_files, batch_size, track, base,
                   rerun, last, file_list, join, pureVars>>

\* one pass of the batch loop, bulk_write returns
BatchCommit ==
    /\ pc = "batch"
    /\ i < Len(documents)
    /\ LET batch == Batch(documents, i, batch_size)
       IN  \E o \in bulk_write(store, batch) :
               /\ store' = o.st
               /\ total_inserted' = total_inserted + o.n
               /\ attempted' = Append(attempted,
                      [lo |-> i + 1, hi |-> i + Len(batch), ok |-> TRUE,
                       n |-> o.n])
    /\ i' = i + batch_size
    /\ UNCHANGED <<pc, tsv_files, batch_size, fileIdx, documents, results,
                   fileFault, track, base, rerun, last, file_list, processed,
                   join, pureVars>>

\* a handler that leaves the loop (break) where the code says continue
BatchFaultBreak ==
    /\ pc = "batch"
    /\ i < Len(documents)
    /\ LET batch == Batch(documents, i, batch_size)
       IN  \E o \in bulk_write_fault(store, batch) :
               /\ store' = o.st
               /\ attempted' = Append(attempted,
                      [lo |-> i + 1, hi |-> i + Len(batch), ok |-> FALSE,
                       n |-> o.n])
    /\ i' = Len(documents)
    /\ UNCHANGED <<pc, tsv_files, batch_size, fileIdx, documents,
                   total_inserted, results, fileFault, track, base, rerun,
                   last, file_list, processed, join, pureVars>>

\* a handler that adds what the batch applied before it raised
BatchFaultCounts ==
    /\ pc = "batch"
    /\ i < Len(documents)
    /\ LET batch == Batch(documents, i, batch_size)
       IN  \E o \in bulk_write_fault(store, batch) :
               /\ store' = o.st
               /\ total_inserted' = total_inserted + o.n
               /\ attempted' = Append(attempted,
                      [lo |-> i + 1, hi |-> i + Len(batch), ok |-> FALSE,
                       n |-> o.n])
    /\ i' = i + batch_size
    /\ UNCHANGED <<pc, tsv_files, batch_size, fileIdx, documents,
                   results, fileFault, track, base, rerun,
                   last, file_list, processed, join, pureVars>>

\* one pass of the batch loop, bulk_write raises PyMongoError
BatchFault ==
    /\ pc = "batch"
    /\ i < Len(documents)
    /\ LET batch == Batch(documents, i, batch_size)
       IN  \E o \in bulk_write_fault(store, batch) :
               /\ store' = o.st
               /\ attempted' = Append(attempted,
                      [lo |-> i + 1, hi |-> i + Len(batch), ok |-> FALSE,
                       n |-> o.n])
    /\ i' = i + batch_size
    /\ UNCHANGED <<pc, tsv_files, batch_size, fileIdx, documents,
                   total_inserted, results, fileFault, track, base, rerun,
                   last, file_list, processed, join, pureVars>>

\* the batch loop ends: insert_documents_to_mongo returns total_inserted
FinishLoad ==
    /\ pc = "batch"
    /\ i >= Len(documents)
    /\ pc' = "file"
    /\ results' = Append(results, total_inserted)
    /\ fileFault' = Append(fileFault,
                           \E k \in 1..Len(attempted) : ~attempted[k].ok)
    /\ fileIdx' = fileIdx + 1
    /\ documents' = <<>>
    /\ i' = 0
    /\ total_inserted' = 0
    /\ attempted' = <<>>
    /\ UNCHANGED <<store, tsv_files, batch_size, track, base, rerun, last,
                   file_list, processed, join, pureVars>>

\* the file loop ends
FinishTransform ==
    /\ pc = "file"
    /\ fileIdx > Len(tsv_files)
    /\ pc' = "done"
    /\ UNCHANGED <<store, tsv_files, batch_size, fileIdx, documents, i,
                   total_inserted, results, attempted, fileFault, track,
                   base, rerun, last, file_list, processed, join, pureVars>>

\* the process dies between two store round trips
Crash ==
    /\ pc \in {"file", "batch"}
    /\ pc' = "crashed"
    /\ UNCHANGED <<store, tsv_files, batch_size, fileIdx, documents, i,
                   total_inserted, results, attempted, fileFault, track,
                   base, rerun, last, file_list, processed, join, pureVars>>

\* join_clinical.main: update_patients_with_clinical(clinical_data)
ClinicalJoin(clinical_data) ==
    /\ pc \in {"idle", "done", "crashed"}
    /\ pc' = "idle"
    /\ store' = update_patients_with_clinical(store, clinical_data)
    /\ last' = [op |-> "join", clinical_data |-> clinical_data,
                again |-> last.op = "join"
                              /\ last.clinical_data = clinical_data,
                updated_count |-> modified_count(store, clinical_data)]
    /\ tsv_files' = <<>>
    /\ batch_size' = 1
    /\ fileIdx' = 1
    /\ documents' = <<>>
    /\ i' = 0
    /\ total_inserted' = 0
    /\ results' = <<>>
    /\ attempted' = <<>>
    /\ fileFault' = <<>>
    /\ base' = {}
    /\ rerun' = "no"
    /\ file_list' = <<>>
    /\ processed' = <<>>
    /\ UNCHANGED <<track, join, pureVars>>

\* the same, the bulk write raises: any part of it may be applied
ClinicalJoinFault(clinical_data) ==
    /\ pc \in {"idle", "done", "crashed"}
    /\ ClinicalOps(store, clinical_data) # {}
    /\ pc' = "idle"
    /\ \E ops \in SUBSET ClinicalOps(store, clinical_data) :
           store' = ApplyClinical(store, clinical_data, ops)
    /\ last' = [op |-> "joinfault", clinical_data |-> clinical_data,
                again |-> FALSE, updated_count |-> 0]
    /\ tsv_files' = <<>>
    /\ batch_size' = 1
    /\ fileIdx' = 1
    /\ documents' = <<>>
    /\ i' = 0
    /\ total_inserted' = 0
    /\ results' = <<>>
    /\ attempted' = <<>>
    /\ fileFault' = <<>>
    /\ base' = {}
    /\ rerun' = "no"
    /\ file_list' = <<>>
    /\ processed' = <<>>
    /\ UNCHANGED <<track, join, pureVars>>

Next ==
    \/ \E files \in FileLists, size \in 1..MaxBatchSize :
           StartTransform(files, size)
    \/ ProcessFile
    \/ BatchCommit
    \/ BatchFault
    \/ FinishLoad
    \/ FinishTransform
    \/ Crash
    \/ \E clinical_data \in ClinicalMaps : ClinicalJoin(clinical_data)
    \/ \E clinical_data \in ClinicalMaps : ClinicalJoinFault(clinical_data)

Spec == Init /\ [][Next]_vars

(***************************************************************************)
(* One transform run that may crash and be run again, with the store at    *)
(* its start recorded.  The run starts on an empty store or on a store     *)
(* that an earlier load and clinical join have left.                       *)
(***************************************************************************)
CrashStores ==
    {{}} \cup
    {update_patients_with_clinical(st, [p \in {P_BR1} |-> [OS_time |-> 450]]) :
        st \in UNION {{o.st : o \in bulk_write({}, Docs(f))} : f \in 1..2}}

CrashInit ==
    /\ store \in CrashStores
    /\ pc = "idle"
    /\ tsv_files = <<>>
    /\ batch_size = 1
    /\ fileIdx = 1
    /\ documents = <<>>
    /\ i = 0
    /\ total_inserted = 0
    /\ results = <<>>
    /\ attempted = <<>>
    /\ fileFault = <<>>
    /\ track = TRUE
    /\ base = {}
    /\ rerun = "no"
    /\ last = NoWrite
    /\ file_list = <<>>
    /\ processed = <<>>
    /\ sid = <<>>
    /\ derived = NoResult
    /\ frame = NoFrame
    /\ reshaped = NoResult
    /\ barcode_id = NoResult
    /\ clinical_df = NoTable
    /\ loaded = NoResult
    /\ join = NoJoin

CrashNext ==
    \/ /\ pc = "idle"
       /\ \E files \in FileLists, size \in 1..MaxBatchSize :
              StartTransform(files, size)
    \/ Rerun
    \/ ProcessFile
    \/ BatchCommit
    \/ BatchFault
    \/ FinishLoad
    \/ FinishTransform
    \/ Crash

CrashSpec == CrashInit /\ [][CrashNext]_vars

(***************************************************************************)
(* Transform runs over a bucket that also holds objects whose name and     *)
(* payload disagree, a text that is no table and a name outside the        *)
(* filter; fetching an object may fail.  One run on an empty store.        *)
(***************************************************************************)
FetchNext ==
    \/ /\ pc = "idle"
       /\ \E files \in FetchLists, size \in 1..MaxBatchSize :
              StartTransform(files, size)
    \/ ProcessFile
    \/ FetchFails
    \/ BatchCommit
    \/ BatchFault
    \/ FinishLoad
    \/ FinishTransform

FetchSpec == Init /\ [][FetchNext]_vars

(***************************************************************************)
(* The Identifier Deriver on its own: every identifier of at most          *)
(* MaxIdLen tokens, and the two identifiers the specification names        *)
(***************************************************************************)
IdTokens == {"TCGA", "-", "AB", "1234"}

S_AB1234_01 == <<"TCGA", "-", "AB", "-", "1234", "-", "01">>

DeriveInputs ==
    UNION {[1..n -> IdTokens] : n \in 0..MaxIdLen} \cup {S_AB1234_01, S_XYZ}

DeriveInit ==
    /\ sid \in DeriveInputs
    /\ derived = NoResult
    /\ store = {}
    /\ pc = "idle"
    /\ tsv_files = <<>>
    /\ batch_size = 1
    /\ fileIdx = 1
    /\ documents = <<>>
    /\ i = 0
    /\ total_inserted = 0
    /\ results = <<>>
    /\ attempted = <<>>
    /\ fileFault = <<>>
    /\ track = FALSE
    /\ base = {}
    /\ rerun = "no"
    /\ last = NoWrite
    /\ file_list = <<>>
    /\ processed = <<>>
    /\ frame = NoFrame
    /\ reshaped = NoResult
    /\ barcode_id = NoResult
    /\ clinical_df = NoTable
    /\ loaded = NoResult
    /\ join = NoJoin

Derive ==
    /\ derived = NoResult
    /\ derived' = extract_patient_id_and_cohort(sid)
    /\ barcode_id' = extract_patient_id(sid)
    /\ UNCHANGED <<sid, frame, reshaped, clinical_df, loaded, loaderVars>>

DeriveNext == Derive

DeriveSpec == DeriveInit /\ [][DeriveNext]_vars

(***************************************************************************)
(* The Matrix Reshaper on its own: every matrix of at most MaxRows rows    *)
(* and MaxCols columns over a few row labels and sample ids, and a text    *)
(* that is no table, under a few cohort filters and target panels.  The    *)
(* cell of row r and column c holds the number 10 r + c, in a runtime      *)
(* type that the layout of the matrix fixes.                               *)
(***************************************************************************)
RowLabels == {"IL8", "CXCL8", "TMEM173", "FOO"}

S_LU9_01 == <<"TCGA", "-", "LU", "-", "0009", "-", "01">>

\* an id that holds TCGA-BR- and does not start with it
S_X_BR1 == <<"X", "-", "TCGA", "-", "BR", "-", "0001">>

SampleIds == {S_BR1_01, S_LU9_01, S_XYZ, S_X_BR1}

Layouts == 0..2

CellAt(r, c, layout) ==
    LET kind == (r + 2 * c + layout) % 6
        n == 10 * r + c
    IN  CASE kind = 0 -> NaN
          [] kind = 1 -> NpInt(n)
          [] kind = 2 -> Str(n)
          [] kind = 3 -> None
          [] kind = 4 -> NpFloat(n)
          [] OTHER -> Float(n)

FrameOf(index, columns, layout) ==
    [index |-> index,
     columns |-> columns,
     values |-> [r \in 1..Len(index) |->
                    [c \in 1..Len(columns) |-> CellAt(r, c, layout)]]]

ColumnLists ==
    {cs \in UNION {[1..n -> SampleIds] : n \in 0..MaxCols} :
        \A a, b \in 1..Len(cs) : a # b => cs[a] # cs[b]}

Frames ==
    {FrameOf(ix, cs, l) :
        ix \in UNION {[1..n -> RowLabels] : n \in 0..MaxRows},
        cs \in ColumnLists, l \in Layouts}

\* no filter (None), the filter that is none, and a cohort
Cohorts == {<<>>, PAN_CANCER, <<"BR">>}

\* the panel of the repository, the panel without the alias, a panel of one
Panels == {cgas_sting_genes, cgas_sting_genes \ {"CXCL8"}, {"TMEM173"}}

ReshapeInit ==
    /\ frame \in [file_stream : {Text(df) : df \in Frames} \cup {Garbled},
                  cohort : Cohorts,
                  target_genes : Panels]
    /\ reshaped = NoResult
    /\ barcode_id = NoResult
    /\ clinical_df = NoTable
    /\ loaded = NoResult
    /\ join = NoJoin
    /\ sid = <<>>
    /\ derived = NoResult
    /\ store = {}
    /\ pc = "idle"
    /\ tsv_files = <<>>
    /\ batch_size = 1
    /\ fileIdx = 1
    /\ documents = <<>>
    /\ i = 0
    /\ total_inserted = 0
    /\ results = <<>>
    /\ attempted = <<>>
    /\ fileFault = <<>>
    /\ track = FALSE
    /\ base = {}
    /\ rerun = "no"
    /\ last = NoWrite
    /\ file_list = <<>>
    /\ processed = <<>>

\* process_transposed_tsv_data returns; genes_to_keep is its local set
Reshape ==
    /\ reshaped = NoResult
    /\ reshaped' =
           <<process_transposed_tsv_data(frame.file_stream, frame.cohort,
                                         frame.target_genes),
             IF frame.file_stream.table
             THEN GenesToKeep(frame.file_stream.df, frame.target_genes)
             ELSE {}>>
    /\ UNCHANGED <<frame, sid, derived, barcode_id, clinical_df, loaded,
                   loaderVars>>

ReshapeNext == Reshape

ReshapeSpec == ReshapeInit /\ [][ReshapeNext]_vars

(***************************************************************************)
(* load_clinical_data on its own: every table of at most MaxClinCols of    *)
(* the columns below, in any order, and at most MaxClinRows rows, each     *)
(* row one of the rows below cut down to the columns of the table          *)
(***************************************************************************)
ClinicalColumns ==
    {"bcr_patient_barcode", "sample", "case", "OS", "overall_survival",
     "OS.time"}

\* a row: the cells under the three id-like and the three field columns
ClinicalRow(bcr, sample, case, os, overall_survival, os_time) ==
    [c \in ClinicalColumns |->
        CASE c = "bcr_patient_barcode" -> bcr
          [] c = "sample" -> sample
          [] c = "case" -> case
          [] c = "OS" -> os
          [] c = "overall_survival" -> overall_survival
          [] c = "OS.time" -> os_time]

ClinicalRows ==
    {ClinicalRow(Str(S_BR1_01), Str(S_BR2_01), Str(S_LU9_01),
                 NpInt(1), NpInt(0), NpInt(450)),
     ClinicalRow(NaN, Str(S_BR1_01), Str(S_BR2_01),
                 NaN, NpInt(1), Str(<<"Na">>)),
     ClinicalRow(Str(S_BR1_01), NaN, Str(S_BR1_01), NaN, NaN, NaN),
     ClinicalRow(Str(S_BR1_11), Str(S_BR1_11), NaN, NpInt(0), NaN, NaN),
     ClinicalRow(NaN, NaN, NpInt(7), NpInt(1), NaN, Str(<<"Null">>))}

HeaderLists ==
    {cs \in UNION {[1..n -> ClinicalColumns] : n \in 1..MaxClinCols} :
        \A a, b \in 1..Len(cs) : a # b => cs[a] # cs[b]}

\* the cells of a row under the columns of the table
CutTo(row, columns) ==
    [c \in {columns[k] : k \in 1..Len(columns)} |-> row[c]]

ClinicalTables ==
    {[columns |-> cs,
      rows |-> [n \in 1..Len(rs) |-> CutTo(rs[n], cs)]] :
        cs \in HeaderLists,
        rs \in UNION {[1..n -> ClinicalRows] : n \in 0..MaxClinRows}}

ClinicalInit ==
    /\ clinical_df \in ClinicalTables
    /\ loaded = NoResult
    /\ frame = NoFrame
    /\ reshaped = NoResult
    /\ barcode_id = NoResult
    /\ join = NoJoin
    /\ sid = <<>>
    /\ derived = NoResult
    /\ store = {}
    /\ pc = "idle"
    /\ tsv_files = <<>>
    /\ batch_size = 1
    /\ fileIdx = 1
    /\ documents = <<>>
    /\ i = 0
    /\ total_inserted = 0
    /\ results = <<>>
    /\ attempted = <<>>
    /\ fileFault = <<>>
    /\ track = FALSE
    /\ base = {}
    /\ rerun = "no"
    /\ last = NoWrite
    /\ file_list = <<>>
    /\ processed = <<>>

\* load_clinical_data returns clinical_dict; ids and records are the
\* patient_id and the clinical_data of each pass of its loop (a pass that
\* skips its row builds no clinical_data)
LoadClinical ==
    /\ loaded = NoResult
    /\ loaded' =
           [clinical_dict |-> load_clinical_data(clinical_df),
            ids |-> [n \in 1..Len(clinical_df.rows) |->
                        row_patient_id(clinical_df.columns,
                                       clinical_df.rows[n])],
            records |-> [n \in 1..Len(clinical_df.rows) |->
                            IF row_patient_id(clinical_df.columns,
                                   clinical_df.rows[n]).from = "skip"
                            THEN EmptyMap
                            ELSE row_clinical_data(clinical_df.columns,
                                                   clinical_df.rows[n])]]
    /\ UNCHANGED <<clinical_df, sid, derived, barcode_id, frame, reshaped,
                   loaderVars>>

ClinicalNext == LoadClinical

ClinicalSpec == ClinicalInit /\ [][ClinicalNext]_vars

(***************************************************************************)
(* update_patients_with_clinical batch by batch, on a store that a load    *)
(* has left.  The batch size is 1000 in the code; here it is 1 to          *)
(* MaxBatchSize, so that a pass has several bulk writes                    *)
(***************************************************************************)
\* the document of a sample, as the loader stores it
JoinDoc(sample_id) ==
    create_mongo_document(
        [c \in {"sample", "TMEM173"} |->
            IF c = "sample" THEN sample_id ELSE NpFloat(1)],
        {"TMEM173"})

\* stores of up to four documents, each with no clinical record yet or
\* with the record of an earlier join
JoinStores ==
    {{[JoinDoc(s) EXCEPT !.clinical = earlier[s]] : s \in samples} :
        samples \in SUBSET {S_BR1_01, S_BR2_01, S_LU9_01, S_XYZ},
        earlier \in [{S_BR1_01, S_BR2_01, S_LU9_01, S_XYZ} ->
                        {EmptyMap, [OS_time |-> 450]}]}

\* the orders in which a cursor can give the elements of S
Orders(S) ==
    {f \in [1..Cardinality(S) -> S] :
        \A a, b \in 1..Cardinality(S) : a # b => f[a] # f[b]}

JoinInit ==
    /\ store \in JoinStores
    /\ join = NoJoin
    /\ pc = "idle"
    /\ clinical_df = NoTable
    /\ loaded = NoResult
    /\ frame = NoFrame
    /\ reshaped = NoResult
    /\ barcode_id = NoResult
    /\ sid = <<>>
    /\ derived = NoResult
    /\ tsv_files = <<>>
    /\ batch_size = 1
    /\ fileIdx = 1
    /\ documents = <<>>
    /\ i = 0
    /\ total_inserted = 0
    /\ results = <<>>
    /\ attempted = <<>>
    /\ fileFault = <<>>
    /\ track = FALSE
    /\ base = {}
    /\ rerun = "no"
    /\ last = NoWrite
    /\ file_list = <<>>
    /\ processed = <<>>

\* the call: with an empty map it returns 0 at once; else ops are the _id
\* of the documents that get an UpdateOne, in the order of the cursor
JoinStart(clinical_data, size, ops) ==
    /\ pc = "idle"
    /\ join = NoJoin
    /\ IF DOMAIN clinical_data = {}
       THEN /\ pc' = "joined"
            /\ join' = [NoJoin EXCEPT !.returned = 0]
       ELSE /\ pc' = "joining"
            /\ join' = [clinical_data |-> clinical_data, ops |-> ops,
                        batch_size |-> size, i |-> 0, updated_count |-> 0,
                        issued |-> <<>>, returned |-> -1]
    /\ UNCHANGED <<store, tsv_files, batch_size, fileIdx, documents, i,
                   total_inserted, results, attempted, fileFault, track,
                   base, rerun, last, file_list, processed, pureVars>>

\* the documents named by the next batch_operations
JoinBatchDocs ==
    {e \in store :
        \E k \in (join.i + 1)..Min(join.i + join.batch_size, Len(join.ops)) :
            join.ops[k] = e._id}

\* modified_count of a bulk write that sets the clinical field of docs
Modified(docs) ==
    Cardinality({e \in docs :
                    e.clinical # join.clinical_data[e.patient_id]})

\* a bulk write that raises, after which the loop goes on
JoinBatchFaultContinue ==
    /\ pc = "joining"
    /\ join.i < Len(join.ops)
    /\ \E applied \in SUBSET JoinBatchDocs :
           /\ store' = ApplyClinical(store, join.clinical_data, applied)
           /\ join' = [join EXCEPT
                  !.i = Min(join.i + join.batch_size, Len(join.ops)),
                  !.issued = Append(@,
                      [lo |-> join.i + 1,
                       hi |-> Min(join.i + join.batch_size, Len(join.ops)),
                       ok |-> FALSE, n |-> Modified(applied)])]
    /\ UNCHANGED <<pc, tsv_files, batch_size, fileIdx, documents, i,
                   total_inserted, results, attempted, fileFault, track,
                   base, rerun, last, file_list, processed, pureVars>>

\* collection.bulk_write(batch_operations, ordered=False) returns
JoinBatch ==
    /\ pc = "joining"
    /\ join.i < Len(join.ops)
    /\ store' = ApplyClinical(store, join.clinical_data, JoinBatchDocs)
    /\ join' = [join EXCEPT
           !.i = Min(join.i + join.batch_size, Len(join.ops)),
           !.updated_count = @ + Modified(JoinBatchDocs),
           !.issued = Append(@,
               [lo |-> join.i + 1,
                hi |-> Min(join.i + join.batch_size, Len(join.ops)),
                ok |-> TRUE, n |-> Modified(JoinBatchDocs)])]
    /\ UNCHANGED <<pc, tsv_files, batch_size, fileIdx, documents, i,
                   total_inserted, results, attempted, fileFault, track,
                   base, rerun, last, file_list, processed, pureVars>>

\* the bulk write raises PyMongoError with any part of it applied: the
\* handler returns updated_count
JoinBatchFault ==
    /\ pc = "joining"
    /\ join.i < Len(join.ops)
    /\ pc' = "joined"
    /\ \E applied \in SUBSET JoinBatchDocs :
           /\ store' = ApplyClinical(store, join.clinical_data, applied)
           /\ join' = [join EXCEPT
                  !.returned = join.updated_count,
                  !.issued = Append(@,
                      [lo |-> join.i + 1,
                       hi |-> Min(join.i + join.batch_size, Len(join.ops)),
                       ok |-> FALSE, n |-> Modified(applied)])]
    /\ UNCHANGED <<tsv_files, batch_size, fileIdx, documents, i,
                   total_inserted, results, attempted, fileFault, track,
                   base, rerun, last, file_list, processed, pureVars>>

\* the cursor is at its end and no operation is left: return updated_count
JoinFinish ==
    /\ pc = "joining"
    /\ join.i >= Len(join.ops)
    /\ pc' = "joined"
    /\ join' = [join EXCEPT !.returned = join.updated_count]
    /\ UNCHANGED <<store, tsv_files, batch_size, fileIdx, documents, i,
                   total_inserted, results, attempted, fileFault, track,
                   base, rerun, last, file_list, processed, pureVars>>

JoinNext ==
    \/ \E clinical_data \in ClinicalMaps, size \in 1..MaxBatchSize :
           \E ops \in Orders({e._id : e \in
                                 ClinicalOps(store, clinical_data)}) :
               JoinStart(clinical_data, size, ops)
    \/ JoinBatch
    \/ JoinBatchFault
    \/ JoinFinish

JoinSpec == JoinInit /\ [][JoinNext]_vars

(***************************************************************************)
(* Properties                                                              *)
(***************************************************************************)
\* the batch issued last by the current call
LastBatch ==
    SubSeq(documents, attempted[Len(attempted)].lo,
           attempted[Len(attempted)].hi)

\* the batch loop of the current call has ended
LoadComplete == pc = "batch" /\ i >= Len(documents)

\* no batch of the current call raised
FaultFree == \A k \in 1..Len(attempted) : attempted[k].ok

\* the last pass of the batch loop returned from bulk_write
JustCommitted ==
    pc = "batch" /\ attempted # <<>> /\ attempted[Len(attempted)].ok

InStore(id) == {e \in store : e._id = id}

Range(seq) == {seq[k] : k \in 1..Len(seq)}

\* C1: a gene-loading pass never changes the clinical field of a document
\* that already exists in the store
C1_LoadKeepsClinical ==
    [][pc = "batch" =>
          \A e \in store : \A e2 \in store' :
              e2._id = e._id => e2.clinical = e.clinical]_vars

\* C2: after a second load of a composite _id that completed, exactly one
\* document has that _id and its genes mapping is the mapping carried by
\* the second load, key for key
C2_ReloadReplacesGenes ==
    (LoadComplete /\ FaultFree) =>
        \A d \in Range(documents) :
            /\ Cardinality(InStore(d._id)) = 1
            /\ \A e \in InStore(d._id) :
                   \E x \in Range(documents) :
                       x._id = d._id /\ e.genes = x.genes

\* C2 witness: the first file of the run loaded an _id, the load of the
\* second file has completed and carried the _id with another gene key set
C2_Witness ==
    /\ LoadComplete /\ FaultFree
    /\ fileIdx = 2 /\ ~fileFault[1]
    /\ \E b \in Range(Docs(tsv_files[1])) : \E d \in Range(documents) :
           /\ b._id = d._id
           /\ DOMAIN b.genes \ DOMAIN d.genes # {}
           /\ \A x \in Range(documents) : x._id = d._id => x.genes # b.genes

\* C3: after a bulk upsert the stored document of every upserted _id
\* equals an upserted document in every field, whether the _id matched a
\* stored document or not; an _id upserted once in the batch is stored
\* exactly as given
C3_UpsertReplacesBody ==
    JustCommitted =>
        \A d \in Range(LastBatch) :
            /\ \E x \in Range(LastBatch) : x._id = d._id /\ x \in store
            /\ (\A x \in Range(LastBatch) : x._id = d._id => x = d)
                   => InStore(d._id) = {d}

\* C3 witness: the first file of the run loaded an _id; the first batch
\* of the second file replaced that document by one with another sample_id
\* and other genes, and inserted a document whose _id the first file did
\* not load
C3_Witness ==
    /\ JustCommitted
    /\ Len(attempted) = 1
    /\ fileIdx = 2 /\ ~fileFault[1]
    /\ \E d \in Range(LastBatch) : \E b \in Range(Docs(tsv_files[1])) :
           /\ b._id = d._id
           /\ b.sample_id # d.sample_id
           /\ b.genes # d.genes
           /\ d \in store
    /\ \E d \in Range(LastBatch) :
           d \in store /\ \A b \in Range(Docs(tsv_files[1])) : b._id # d._id

\* C4: a clinical join, whether its bulk write returns or raises, leaves
\* _id, patient_id, sample_id, cancer_cohort and genes of every document
\* as they were, and adds or removes no document
C4_JoinKeepsGenes ==
    [][pc' = "idle" =>
          /\ \A e \in store : \E e2 \in store' :
                 /\ e2._id = e._id
                 /\ e2.patient_id = e.patient_id
                 /\ e2.sample_id = e.sample_id
                 /\ e2.cancer_cohort = e.cancer_cohort
                 /\ e2.genes = e.genes
          /\ \A e2 \in store' : \E e \in store : e._id = e2._id]_vars

\* C4 witness: a join has set the clinical record of a document that has
\* gene data, next to a document whose patient is not in the clinical map
C4_Witness ==
    /\ last.op = "join"
    /\ \E e \in store :
           /\ e.patient_id \in DOMAIN last.clinical_data
           /\ e.clinical = last.clinical_data[e.patient_id]
           /\ DOMAIN e.genes # {}
    /\ \E e \in store : e.patient_id \notin DOMAIN last.clinical_data

\* C5: the batches issued so far are the first batches of the partition
\* of documents into runs of batch_size, in order, each once; when the
\* loop ends they cover every document, whether or not a batch raised
C5_BatchesInOrder ==
    pc = "batch" =>
        /\ i = Len(attempted) * batch_size
        /\ \A k \in 1..Len(attempted) :
               /\ attempted[k].lo = (k - 1) * batch_size + 1
               /\ attempted[k].hi = Min(k * batch_size, Len(documents))
               /\ attempted[k].lo <= attempted[k].hi
        /\ LoadComplete =>
               /\ attempted # <<>>
               /\ attempted[Len(attempted)].hi = Len(documents)

\* C5 witness: the loop has ended, the first batch raised, the batch
\* after it was issued and returned, and it is the smaller last batch
C5_Witness ==
    /\ LoadComplete
    /\ Len(attempted) >= 2
    /\ ~attempted[1].ok
    /\ attempted[Len(attempted)].ok
    /\ attempted[Len(attempted)].hi - attempted[Len(attempted)].lo + 1
           < batch_size

LaterEmitters(j, id) ==
    {m \in (j + 1)..Len(tsv_files) :
        \E x \in Range(Docs(tsv_files[m])) : x._id = id}

\* C7: when the run is over, a key emitted by several files of the listing
\* is held by exactly one document, and its sample_id and genes are those
\* of a document emitted by the last file that carries the key and whose
\* load completed
C7_LastWriteWins ==
    pc = "done" =>
        \A j \in 1..Len(tsv_files) :
            \A d \in Range(Docs(tsv_files[j])) :
                (LaterEmitters(j, d._id) = {} /\ ~fileFault[j]) =>
                    /\ Cardinality(InStore(d._id)) = 1
                    /\ \A e \in InStore(d._id) :
                           \E x \in Range(Docs(tsv_files[j])) :
                               /\ x._id = d._id
                               /\ e.sample_id = x.sample_id
                               /\ e.genes = x.genes

\* C7 witness: two files emitted the same key with other values, both were
\* processed, and the store holds the values of the second
C7_Witness ==
    /\ pc = "done"
    /\ Len(tsv_files) = 2
    /\ ~fileFault[2]
    /\ \E d1 \in Range(Docs(tsv_files[1])) :
           \E d2 \in Range(Docs(tsv_files[2])) :
               /\ d1._id = d2._id
               /\ \A x \in Range(Docs(tsv_files[2])) :
                      x._id = d1._id => x.genes # d1.genes
               /\ \E e \in store : e._id = d2._id /\ e.genes = d2.genes

\* the stores an insert_documents_to_mongo call without a fault can leave
RECURSIVE LoadFrom(_, _, _, _)
LoadFrom(st, docs, size, from) ==
    IF from >= Len(docs) THEN {st}
    ELSE UNION {LoadFrom(o.st, docs, size, from + size) :
                   o \in bulk_write(st, Batch(docs, from, size))}

\* the same when any batch may raise
RECURSIVE LoadFromFaulty(_, _, _, _)
LoadFromFaulty(st, docs, size, from) ==
    IF from >= Len(docs) THEN {st}
    ELSE UNION {LoadFromFaulty(o.st, docs, size, from + size) :
                   o \in bulk_write_fault(st, Batch(docs, from, size))}

\* the stores one uninterrupted run without a fault can leave, files j..
RECURSIVE RunFiles(_, _, _, _)
RunFiles(st, files, size, j) ==
    IF j > Len(files) THEN {st}
    ELSE UNION {RunFiles(s2, files, size, j + 1) :
                   s2 \in LoadFrom(st, Docs(files[j]), size, 0)}

NumBatches(docs, size) == (Len(docs) + size - 1) \div size

\* the stores left by the files before position j and the first n batches
\* of file j, all of them committed
RunPrefix(st, j, n) ==
    LET docs == IF j <= Len(tsv_files) THEN Docs(tsv_files[j]) ELSE <<>>
        head == SubSeq(docs, 1, Min(n * batch_size, Len(docs)))
    IN  UNION {LoadFrom(s2, head, batch_size, 0) :
                  s2 \in RunFiles(st, SubSeq(tsv_files, 1, j - 1),
                                  batch_size, 1)}

\* the batches att[k..] of docs applied in order, a batch that raised in
\* part or not at all
RECURSIVE ApplyAttempted(_, _, _, _)
ApplyAttempted(st, docs, att, k) ==
    IF k > Len(att) THEN {st}
    ELSE LET batch == SubSeq(docs, att[k].lo, att[k].hi)
         IN  UNION {ApplyAttempted(o.st, docs, att, k + 1) :
                       o \in IF att[k].ok THEN bulk_write(st, batch)
                             ELSE bulk_write_fault(st, batch)}

\* the stores left by the finished files j.. of the run and the batches
\* issued so far for the current file, and by nothing else
RECURSIVE CrashStates(_, _)
CrashStates(st, j) ==
    IF j >= fileIdx THEN ApplyAttempted(st, documents, attempted, 1)
    ELSE UNION {CrashStates(s2, j + 1) :
                   s2 \in IF fileFault[j]
                          THEN LoadFromFaulty(st, Docs(tsv_files[j]),
                                              batch_size, 0)
                          ELSE LoadFrom(st, Docs(tsv_files[j]),
                                        batch_size, 0)}

\* C8 as stated: at a crash the store is the one left by committing a
\* prefix of the batch sequence and nothing after it; the complete load
\* run again leaves the store of one uninterrupted run
C8_CommittedPrefix ==
    /\ (pc = "crashed" /\ rerun = "no") =>
           \E j \in 1..fileIdx :
               \E n \in 0..NumBatches(
                            IF j <= Len(tsv_files) THEN Docs(tsv_files[j])
                            ELSE <<>>, batch_size) :
                   store \in RunPrefix(base, j, n)
    /\ (pc = "done" /\ rerun # "no") =>
           store \in RunFiles(base, tsv_files, batch_size, 1)

\* C8 amended: at a crash the batches issued form a prefix of the batch
\* sequence, the store is what these batches leave (a batch that raised
\* applied in part or not at all) and nothing of a later batch; if none
\* raised it is the store of the committed prefix; the complete load run
\* again without a fault leaves a store of one uninterrupted run
C8_AttemptedPrefix ==
    /\ (pc = "crashed" /\ rerun = "no") =>
           /\ \A k \in 1..Len(attempted) :
                  /\ attempted[k].lo = (k - 1) * batch_size + 1
                  /\ attempted[k].hi = Min(k * batch_size, Len(documents))
           /\ store \in CrashStates(base, 1)
           /\ (FaultFree /\ \A j \in 1..Len(fileFault) : ~fileFault[j]) =>
                  store \in RunPrefix(base, fileIdx, Len(attempted))
    /\ (pc = "done" /\ rerun # "no"
            /\ \A j \in 1..Len(fileFault) : ~fileFault[j]) =>
           store \in RunFiles(base, tsv_files, batch_size, 1)

\* C8 witness: a run that crashed inside a batch loop, batches issued and
\* batches left, was run again without a fault and changed the store
C8_Witness ==
    /\ pc = "done"
    /\ rerun = "mid"
    /\ \A j \in 1..Len(fileFault) : ~fileFault[j]
    /\ Len(tsv_files) = 2
    /\ store # base

\* position of the n-th separator of s
NthDash(s, n) ==
    CHOOSE k \in DashPos(s) : Cardinality({m \in DashPos(s) : m < k}) = n - 1

\* C9: an identifier that starts with TCGA and a separator and has a
\* second separator gives (the text before the third separator, the text
\* between the first two separators); any other identifier gives (itself,
\* UNKNOWN); TCGA-AB-1234-01 gives (TCGA-AB-1234, AB), XYZ (XYZ, UNKNOWN)
C9_DeriveContract ==
    derived # NoResult =>
        /\ IF /\ Cardinality(DashPos(sid)) >= 2
              /\ NthDash(sid, 1) = 2
              /\ sid[1] = "TCGA"
           THEN LET stop == IF Cardinality(DashPos(sid)) >= 3
                            THEN NthDash(sid, 3) - 1 ELSE Len(sid)
                IN  derived = <<SubSeq(sid, 1, stop),
                                SubSeq(sid, 3, NthDash(sid, 2) - 1)>>
           ELSE derived = <<sid, <<"UNKNOWN">>>>
        /\ sid = S_AB1234_01 =>
               derived = << <<"TCGA", "-", "AB", "-", "1234">>, <<"AB">> >>
        /\ sid = S_XYZ => derived = << <<"XYZ">>, <<"UNKNOWN">> >>

\* C9 witness: the identifier TCGA-AB-1234-01 has been derived
C9_Witness ==
    /\ sid = S_AB1234_01
    /\ derived # NoResult
    /\ derived[2] = <<"AB">>

\* C10: every stored document has _id = cancer_cohort ":" patient_id, with
\* (patient_id, cancer_cohort) the Identifier Deriver's result for its
\* sample_id
C10_KeyFromSample ==
    \A e \in store :
        /\ e._id = e.cancer_cohort \o <<":">> \o e.patient_id
        /\ <<e.patient_id, e.cancer_cohort>>
               = extract_patient_id_and_cohort(e.sample_id)

\* the outcome of decoding a payload by its first two bytes
ByMagic(data) ==
    IF data.magic THEN decompress_decode(data) ELSE decode_utf8(data)

\* C11: an object that was fetched is decompressed exactly when its
\* payload starts with 1f 8b, whatever its name, and is decoded as UTF-8
\* otherwise: it is given up as undecodable exactly when the decoding
\* chosen by the first two bytes fails, and its documents are those of
\* process_tsv_data on the payload
C11_GzipByMagic ==
    \A k \in 1..Len(processed) :
        processed[k].how # "nofetch" =>
            LET f == processed[k].file
            IN  /\ (processed[k].how = "undecodable")
                       <=> ~ByMagic(Payload(f)).ok
                /\ Docs(f) = process_tsv_data(Payload(f), PAN_CANCER)

\* the files of the listing that the run takes up, in listing order
Listed == SelectSeq(file_list, IsTsvOrGz)

\* C12: the run takes up the .tsv and .gz objects of the listing in
\* listing order, each once, and when it is over has a count for each; a
\* file that is not fetched, not decoded, not parsed or without records
\* gets count 0 and leaves the store as it was, and every file after it
\* is taken up and, if it has documents and is fetched, loaded
C12_EveryFileOnce ==
    /\ [](pc \in {"file", "batch", "done"} =>
             /\ tsv_files = Listed
             /\ Len(processed) <= Len(tsv_files)
             /\ \A k \in 1..Len(processed) :
                    /\ processed[k].file = tsv_files[k]
                    /\ processed[k].how
                           \in {"nofetch", Outcome(tsv_files[k])}
             /\ Len(results) = IF pc = "batch" THEN Len(processed) - 1
                               ELSE Len(processed)
             /\ \A k \in 1..Len(results) :
                    processed[k].how # "loaded" => results[k] = 0
             /\ pc = "batch" =>
                    processed[Len(processed)].how = "loaded"
             /\ pc = "done" => Len(results) = Len(tsv_files))
    /\ [][(Len(processed') = Len(processed) + 1
             /\ processed'[Len(processed')].how # "loaded") =>
               (store' = store /\ pc' = "file"
                    /\ results' = Append(results, 0))]_vars

\* C12 witness: a run is over; its first file was not decoded, a later
\* file was loaded and has a count above 0
C12_Witness ==
    /\ pc = "done"
    /\ Len(tsv_files) >= 2
    /\ processed[1].how = "undecodable"
    /\ \E k \in 2..Len(tsv_files) :
           processed[k].how = "loaded" /\ results[k] > 0

\* the reshaper has returned on a text that is a table
Reshaped == reshaped # NoResult /\ frame.file_stream.table

\* the row labels of the matrix that was reshaped
Available ==
    {frame.file_stream.df.index[r] :
        r \in 1..Len(frame.file_stream.df.index)}

\* C13: under the panel of the repository no produced document has a key
\* CXCL8; when the matrix has a row CXCL8 and no row IL8, every document
\* carries the values of the CXCL8 row under the key IL8
C13_CanonicalKeysOnly ==
    (Reshaped /\ frame.target_genes = cgas_sting_genes) =>
        \A k \in 1..Len(reshaped[1]) :
            LET doc == reshaped[1][k]
                df == frame.file_stream.df
            IN  /\ "CXCL8" \notin DOMAIN doc.genes
                /\ ("CXCL8" \in Available /\ "IL8" \notin Available) =>
                       /\ "IL8" \in DOMAIN doc.genes
                       /\ \E r \in RowsOf(df, "CXCL8") :
                              \E c \in 1..Len(df.columns) :
                                  /\ df.columns[c] = doc.sample_id
                                  /\ doc.genes["IL8"]
                                         = SanitizeValue(df.values[r][c])

\* C14: the rows retained are rows of the matrix that are in the target
\* panel or are the alias CXCL8
C14_RetainedSubset ==
    Reshaped =>
        reshaped[2] \subseteq
            (frame.target_genes \cup {"CXCL8"}) \cap Available

\* C14 witness: a panel without the alias, a matrix with the alias row, a
\* panel row and a row outside the panel: the alias and the panel row are
\* retained, the other row is not
C14_Witness ==
    /\ Reshaped
    /\ "CXCL8" \notin frame.target_genes
    /\ reshaped[2] = {"CXCL8", "TMEM173"}
    /\ "FOO" \in Available

\* the column of the matrix that a document was made from
ColumnsOf(doc) ==
    {c \in 1..Len(frame.file_stream.df.columns) :
        frame.file_stream.df.columns[c] = doc.sample_id}

\* C15: every document is made from one column of the matrix, its genes
\* are the retained rows, and the value under gene g is the sanitised
\* cell of the row labelled g in that column
C15_KeyAlignment ==
    Reshaped =>
        \A k \in 1..Len(reshaped[1]) :
            LET doc == reshaped[1][k]
                df == frame.file_stream.df
            IN  /\ Cardinality(ColumnsOf(doc)) = 1
                /\ DOMAIN doc.genes = reshaped[2]
                /\ \A g \in DOMAIN doc.genes :
                       /\ Cardinality(RowsOf(df, g)) = 1
                       /\ \A r \in RowsOf(df, g) : \A c \in ColumnsOf(doc) :
                              doc.genes[g] = SanitizeValue(df.values[r][c])

\* C15 witness: a matrix of two columns and three rows, a row outside the
\* panel first; the cohort filter has dropped the first column and the
\* document of the second column has two genes
C15_Witness ==
    /\ Reshaped
    /\ frame.cohort = <<"BR">>
    /\ Len(frame.file_stream.df.columns) = 2
    /\ Len(frame.file_stream.df.index) = 3
    /\ frame.file_stream.df.index[1] = "FOO"
    /\ Len(reshaped[1]) = 1
    /\ reshaped[1][1].sample_id = frame.file_stream.df.columns[2]
    /\ Cardinality(DOMAIN reshaped[1][1].genes) = 2

\* C16: the value of every gene column of a document is there and is
\* no null: 0.0 for a missing cell (NaN, None), the float of the same
\* number for a numpy integer or floating cell, and the cell itself for
\* any other cell
C16_SanitizeTotal ==
    Reshaped =>
        \A k \in 1..Len(reshaped[1]) :
            LET doc == reshaped[1][k]
                df == frame.file_stream.df
            IN  \A g \in reshaped[2] :
                    /\ g \in DOMAIN doc.genes
                    /\ doc.genes[g].t \notin {"nan", "None"}
                    /\ \A r \in RowsOf(df, g) : \A c \in ColumnsOf(doc) :
                           LET cell == df.values[r][c]
                           IN  CASE cell.t \in {"nan", "None"} ->
                                      doc.genes[g] = [t |-> "float", v |-> 0]
                                 [] cell.t \in {"np.int64", "np.float64"} ->
                                      doc.genes[g]
                                          = [t |-> "float", v |-> cell.v]
                                 [] OTHER -> doc.genes[g] = cell

\* the runtime types of the cells a document was made from
CellTypes(doc) ==
    {frame.file_stream.df.values[r][c].t :
        r \in UNION {RowsOf(frame.file_stream.df, g) : g \in DOMAIN doc.genes},
        c \in ColumnsOf(doc)}

\* C16 witness: one document made from a None cell, a numpy integer and a
\* string, another one made from a NaN cell
C16_Witness ==
    /\ Reshaped
    /\ \E k \in 1..Len(reshaped[1]) :
           {"None", "np.int64", "str"} \subseteq CellTypes(reshaped[1][k])
    /\ \E k \in 1..Len(reshaped[1]) : "nan" \in CellTypes(reshaped[1][k])

C17_JoinIdempotent ==
    [][(last.op = "join" /\ last'.op = "join"
            /\ last'.clinical_data = last.clinical_data) =>
          store' = store]_vars

\* C17 witness: a join has been repeated on a store where it had set the
\* clinical record of a document
C17_Witness ==
    /\ last.op = "join"
    /\ last.again
    /\ \E e \in store :
           /\ e.patient_id \in DOMAIN last.clinical_data
           /\ e.clinical = last.clinical_data[e.patient_id]
           /\ e.clinical # EmptyMap

\* upserted_count + modified_count of the batches att[k..] that returned
RECURSIVE SumReturned(_, _)
SumReturned(att, k) ==
    IF k > Len(att) THEN 0
    ELSE (IF att[k].ok THEN att[k].n ELSE 0) + SumReturned(att, k + 1)

\* C18: the running total is the sum of upserted_count + modified_count
\* over the batches that returned, a batch that raised adds nothing to it
\* and is issued once, and the total is what the call returns
C18_TotalOfReturned ==
    /\ [](pc = "batch" =>
             /\ total_inserted = SumReturned(attempted, 1)
             /\ \A k \in 1..Len(attempted) :
                    attempted[k].lo = (k - 1) * batch_size + 1)
    /\ [][(pc = "batch" /\ pc' = "file") =>
              results' = Append(results, SumReturned(attempted, 1))]_vars

\* C18 witness: a call is over in which a batch raised after the store
\* had applied a part of it and a batch returned with a count above 0
C18_Witness ==
    /\ LoadComplete
    /\ \E k \in 1..Len(attempted) : ~attempted[k].ok /\ attempted[k].n > 0
    /\ \E k \in 1..Len(attempted) : attempted[k].ok /\ attempted[k].n > 0

\* C19: the store that the bulk upsert of the next batch leaves is the
\* same for every order in which its operations are applied
C19_OrderIrrelevant ==
    (pc = "batch" /\ i < Len(documents)) =>
        Cardinality({o.st : o \in bulk_write(store,
                                Batch(documents, i, batch_size))}) = 1

\* a step of update_patients_with_clinical that returned
JoinStep == last' # last /\ last'.op = "join"

\* C25: a clinical join that returns leaves the documents of the store in
\* place, sets clinical of every document whose patient id is a key of the
\* map to the record of the map and nothing else of it, and leaves every
\* other document as it was; with an empty map the store is as before and
\* the count returned is 0
C25_JoinFrame ==
    [][JoinStep =>
          LET clinical_data == last'.clinical_data
          IN  /\ {e._id : e \in store'} = {e._id : e \in store}
              /\ Cardinality(store') = Cardinality(store)
              /\ \A e \in store :
                     IF e.patient_id \in DOMAIN clinical_data
                     THEN [e EXCEPT !.clinical =
                                        clinical_data[e.patient_id]]
                              \in store'
                     ELSE e \in store'
              /\ DOMAIN clinical_data = {} =>
                     store' = store /\ last'.updated_count = 0]_vars

\* C25 witness: a join has changed a document that had another clinical
\* record, next to a document whose patient is not in the map
C25_Witness ==
    /\ last.op = "join"
    /\ last.updated_count >= 1
    /\ \E e \in store :
           /\ e.patient_id \in DOMAIN last.clinical_data
           /\ e.clinical = [OS |-> 1, OS_time |-> 30]
           /\ e.genes # EmptyMap
    /\ \E e \in store : e.patient_id \notin DOMAIN last.clinical_data

\* a step in which a batch of the loader raised
FaultStep ==
    /\ Len(attempted') = Len(attempted) + 1
    /\ ~attempted'[Len(attempted')].ok

\* C28 as stated: a batch that faults leaves the store as it was
C28_FaultLeavesStore ==
    [][FaultStep => store' = store]_vars

\* C28: after a batch that faults every document of the store is as it
\* was before or is a document of that batch, no document has gone, the
\* documents under other keys are as before, and the count of the file
\* has not moved
C28_FaultWritesOnlyBatch ==
    [][FaultStep =>
          LET batch == SubSeq(documents, attempted'[Len(attempted')].lo,
                              attempted'[Len(attempted')].hi)
          IN  /\ store' \subseteq store \cup Range(batch)
              /\ {e._id : e \in store} \subseteq {e._id : e \in store'}
              /\ \A e \in store :
                     e._id \notin {d._id : d \in Range(batch)} =>
                         e \in store'
              /\ total_inserted' = total_inserted]_vars

\* C28 witness: a batch of two documents has faulted with one of its two
\* writes applied
C28_Witness ==
    /\ attempted # <<>>
    /\ ~attempted[Len(attempted)].ok
    /\ attempted[Len(attempted)].hi = attempted[Len(attempted)].lo + 1
    /\ attempted[Len(attempted)].n = 1
    /\ \E k \in {attempted[Len(attempted)].lo,
                  attempted[Len(attempted)].hi} :
           documents[k] \in store

\* a cohort filter is in force: given and not the sentinel
Filtering == frame.cohort # <<>> /\ frame.cohort # PAN_CANCER

\* the pattern of the cohort filter
CohortPattern == <<"TCGA", DASH>> \o frame.cohort \o <<DASH>>

\* the sample columns the cohort filter lets through, in matrix order
Matching ==
    LET InCohort(sample) == Contains(sample, CohortPattern)
    IN  IF Filtering
        THEN SelectSeq(frame.file_stream.df.columns, InCohort)
        ELSE frame.file_stream.df.columns

\* C21: the documents are those of the sample columns that pass the cohort
\* filter (all columns without a filter), one each and in matrix order;
\* with no target gene row or no matching column the result is empty
\* (under the panel of the repository)
C21_CohortFilter ==
    (Reshaped /\ frame.target_genes = cgas_sting_genes) =>
        IF reshaped[2] = {} THEN reshaped[1] = <<>>
        ELSE /\ Len(reshaped[1]) = Len(Matching)
             /\ \A k \in 1..Len(Matching) :
                    reshaped[1][k].sample_id = Matching[k]

\* the same on the matrices in which no retained row label occurs twice
C21_CohortFilterDistinctRows ==
    (Reshaped /\ ~Ambiguous(frame.file_stream.df, reshaped[2])) =>
        IF reshaped[2] = {} THEN reshaped[1] = <<>>
        ELSE /\ Len(reshaped[1]) = Len(Matching)
             /\ \A k \in 1..Len(Matching) :
                    reshaped[1][k].sample_id = Matching[k]

\* C22: the gene keys of every document are exactly the retained rows, no
\* other row of the matrix is a key, and clinical is empty
C22_GeneKeysExact ==
    Reshaped =>
        \A k \in 1..Len(reshaped[1]) :
            /\ DOMAIN reshaped[1][k].genes = reshaped[2]
            /\ (Available \ reshaped[2]) \cap DOMAIN reshaped[1][k].genes = {}
            /\ reshaped[1][k].clinical = EmptyMap

\* C22 witness: a matrix with a row FOO outside the panel and a missing
\* cell in a retained row; the document has the two retained genes
C22_Witness ==
    /\ Reshaped
    /\ "FOO" \in Available
    /\ Len(reshaped[1]) >= 1
    /\ Cardinality(DOMAIN reshaped[1][1].genes) = 2
    /\ \E g \in DOMAIN reshaped[1][1].genes :
           reshaped[1][1].genes[g] = Float(0)
    /\ \E r \in 1..Len(frame.file_stream.df.index) :
           /\ frame.file_stream.df.index[r] \in reshaped[2]
           /\ \E c \in ColumnsOf(reshaped[1][1]) :
                  frame.file_stream.df.values[r][c] = NaN

\* s starts with p
StartsWith(s, p) == Len(s) >= Len(p) /\ SubSeq(s, 1, Len(p)) = p

Loaded == loaded # NoResult

\* the cell of row n under the column named c
CellOf(n, c) == clinical_df.rows[n][c]

\* the cell of row n in the first column of the table
FirstCell(n) == clinical_df.rows[n][clinical_df.columns[1]]

\* the first id column that the table has, 0 if it has none
IdColumn == FirstExisting(IdColumns, clinical_df.columns)

\* the cell is missing
Missing(cell) == cell.t = "nan"

\* C23 as stated: the id of a row is taken from the first id column that
\* the table has, and from the first column of the table only when the
\* table has no id column
C23_FallbackOnlyWithoutIdColumn ==
    Loaded =>
        \A n \in 1..Len(clinical_df.rows) :
            IF IdColumn # 0
            THEN loaded.ids[n].from # "first"
            ELSE loaded.ids[n].from # "named"

\* C23: the id of a row is derived from its cell in the first id column
\* that the table has if that cell is not missing; else from its cell in
\* the first column of the table if that is not missing; else the row is
\* skipped and adds nothing to the clinical map
C23_FallbackOnMissing ==
    Loaded =>
        \A n \in 1..Len(clinical_df.rows) :
            LET named == IF IdColumn = 0 THEN FALSE
                         ELSE ~Missing(CellOf(n, IdColumns[IdColumn]))
            IN  /\ named =>
                       loaded.ids[n] =
                           [patient_id |-> extract_patient_id(
                                StrOf(CellOf(n, IdColumns[IdColumn]))),
                            from |-> "named"]
                /\ (~named /\ ~Missing(FirstCell(n))) =>
                       loaded.ids[n] =
                           [patient_id |-> extract_patient_id(
                                StrOf(FirstCell(n))),
                            from |-> "first"]
                /\ (~named /\ Missing(FirstCell(n))) =>
                       /\ loaded.ids[n].from = "skip"
                       /\ clinical_dict_after(clinical_df, n)
                              = clinical_dict_after(clinical_df, n - 1)

\* C23 witness: the table has an id column, the cell of a row in it is
\* missing, and the row is in the clinical map under the id of its first
\* column; another row is skipped
C23_Witness ==
    /\ Loaded
    /\ IdColumn # 0
    /\ \E n \in 1..Len(clinical_df.rows) :
           /\ Missing(CellOf(n, IdColumns[IdColumn]))
           /\ loaded.ids[n].from = "first"
           /\ loaded.ids[n].patient_id \in DOMAIN loaded.clinical_dict
    /\ \E n \in 1..Len(clinical_df.rows) : loaded.ids[n].from = "skip"

\* the positions in a field's list of the columns that the table has and
\* whose cell in row n is not missing and no null token
GoodSources(n, f) ==
    {k \in 1..Len(field_mapping[f]) :
        IF \E c \in 1..Len(clinical_df.columns) :
               clinical_df.columns[c] = field_mapping[f][k]
        THEN /\ ~Missing(CellOf(n, field_mapping[f][k]))
             /\ Lower(StrOf(CellOf(n, field_mapping[f][k]))) \notin NullTokens
        ELSE FALSE}

\* C24: a field of a row that has a patient id has the value of the first
\* column of its list that the table has and whose cell is not missing and
\* no null token; it is left out only if there is no such column; no
\* record of the clinical map is empty
C24_FirstUsableColumn ==
    Loaded =>
        /\ \A n \in {m \in 1..Len(clinical_df.rows) :
                         loaded.ids[m].from # "skip"} :
               \A f \in DOMAIN field_mapping :
                   IF GoodSources(n, f) = {}
                   THEN f \notin DOMAIN loaded.records[n]
                   ELSE /\ f \in DOMAIN loaded.records[n]
                        /\ loaded.records[n][f] =
                               CellOf(n, field_mapping[f][
                                   CHOOSE k \in GoodSources(n, f) :
                                       \A j \in GoodSources(n, f) : k <= j])
        /\ \A q \in DOMAIN loaded.clinical_dict :
               DOMAIN loaded.clinical_dict[q] # {}

\* the rows that have the patient id q and a field
RowsOfPatient(q) ==
    {n \in 1..Len(clinical_df.rows) :
        /\ loaded.ids[n].from # "skip"
        /\ loaded.ids[n].patient_id = q
        /\ DOMAIN loaded.records[n] # {}}

\* C30: the clinical map has the patients of the rows that have an id and
\* a field, and for each of them the whole record of the last such row
C30_LastRowWins ==
    Loaded =>
        /\ DOMAIN loaded.clinical_dict =
               {loaded.ids[n].patient_id :
                   n \in {m \in 1..Len(clinical_df.rows) :
                             /\ loaded.ids[m].from # "skip"
                             /\ DOMAIN loaded.records[m] # {}}}
        /\ \A q \in DOMAIN loaded.clinical_dict :
               loaded.clinical_dict[q] =
                   loaded.records[CHOOSE n \in RowsOfPatient(q) :
                                      \A m \in RowsOfPatient(q) : m <= n]

\* C30 witness: two rows of one patient, the first with two fields and the
\* second with one of them: the map has the record of the second
C30_Witness ==
    /\ Loaded
    /\ Len(clinical_df.rows) = 2
    /\ loaded.ids[1].from # "skip"
    /\ loaded.ids[2].patient_id = loaded.ids[1].patient_id
    /\ DOMAIN loaded.records[1] = {"OS", "OS_time"}
    /\ DOMAIN loaded.records[2] = {"OS"}
    /\ loaded.clinical_dict[loaded.ids[1].patient_id] = loaded.records[2]

\* the other case of C30: the second row of the patient has no field and
\* the map keeps the record of the first
C30_NoEraseReached ==
    /\ Loaded
    /\ Len(clinical_df.rows) = 2
    /\ loaded.ids[1].from # "skip"
    /\ loaded.ids[2].patient_id = loaded.ids[1].patient_id
    /\ DOMAIN loaded.records[1] # {}
    /\ DOMAIN loaded.records[2] = {}
    /\ loaded.clinical_dict[loaded.ids[1].patient_id] = loaded.records[1]

\* the batches of the pass that returned
Committed == {k \in 1..Len(join.issued) : join.issued[k].ok}

\* the sum of n over the batches ks of the pass
RECURSIVE SumModified(_)
SumModified(ks) ==
    IF ks = {} THEN 0
    ELSE LET k == CHOOSE j \in ks : TRUE
         IN  join.issued[k].n + SumModified(ks \ {k})

\* C29: a bulk write of the clinical pass that raises is its last one and
\* ends the pass; the documents of the batches that returned before keep
\* the record of the map; the count returned is the sum of the modified
\* counts of the batches that returned
C29_JoinFaultEndsPass ==
    /\ [][(join.issued # <<>> /\ ~join.issued[Len(join.issued)].ok) =>
              join'.issued = join.issued]_vars
    /\ []((join.issued # <<>> /\ ~join.issued[Len(join.issued)].ok) =>
              pc = "joined")
    /\ [](pc = "joined" =>
              /\ join.returned = SumModified(Committed)
              /\ \A k \in Committed :
                     \A j \in join.issued[k].lo..join.issued[k].hi :
                         \E e \in store :
                             /\ e._id = join.ops[j]
                             /\ e.clinical =
                                    join.clinical_data[e.patient_id])

\* C29 witness: the second bulk write of a pass raised after the first had
\* returned and changed a document, a third batch was never sent, and the
\* count returned is that of the first
C29_Witness ==
    /\ pc = "joined"
    /\ Len(join.issued) = 2
    /\ join.issued[1].ok
    /\ join.issued[1].n >= 1
    /\ ~join.issued[2].ok
    /\ join.issued[2].n >= 1
    /\ join.issued[2].hi < Len(join.ops)
    /\ join.returned = join.issued[1].n

\* C27: the Clinical Joiner and the gene loader derive the same patient
\* id from every identifier
C27_SameJoinKey ==
    derived # NoResult => barcode_id = derived[1]

\* C10 witness: after loads and a join the store holds a document with a
\* clinical record and a document of an id outside the TCGA format
C10_Witness ==
    /\ last.op = "join"
    /\ \E e \in store : e.clinical # EmptyMap /\ e.cancer_cohort = <<"BR">>
    /\ \E e \in store : e.cancer_cohort = <<"UNKNOWN">>

====
